---- MODULE Spec2Model ----
(***************************************************************************)
(* State-machine model of nocodb_mcp_server.py: the seven MCP tools        *)
(* (retrieve_records, create_records, update_records, delete_records,      *)
(* get_schema, update_field, list_tables), the connection provider         *)
(* get_nocodb_client and the table resolver get_table_id.                  *)
(*                                                                         *)
(* Strings the code builds are sequences of string tokens, so that         *)
(* concatenation is \o.  A table name is a sequence of one-character       *)
(* strings, so that the title-casing of retrieve_records/delete_records    *)
(* is computed (split, capitalize, join) and not assumed.                  *)
(***************************************************************************)
EXTENDS Naturals, Sequences, FiniteSets, TLC

VARIABLES
    config,     \* process configuration: NOCODB_URL, NOCODB_API_TOKEN, NOCODB_BASE_ID
    pc,         \* per invocation: position in the tool coroutine
    op,         \* per invocation: the tool that was called
    args,       \* per invocation: the arguments of the call
    tname,      \* per invocation: local table_name (after any normalisation)
    data,       \* per invocation: local data (after shape coercion)
    client,     \* per invocation: the httpx.AsyncClient it acquired
    handle,     \* per invocation: the client object its local "client" refers to
    closed,     \* the client objects aclose() was called on
    table_id,   \* per invocation: local table_id
    response,   \* per invocation: the most recent response received
    sent,       \* per invocation: the requests it issued, in order
    result      \* per invocation: what the call produced

vars == <<config, pc, op, args, tname, data, client, handle, closed, table_id, response,
          sent, result>>

-----------------------------------------------------------------------------
(* Bounds *)

\* longest table listing the backend answers with
MaxTables == 2

-----------------------------------------------------------------------------
(* Python values *)

\* None, as a token: str(None) is "None"
NONE == "None"

\* truthiness of an Optional[str]
Falsy(s) == s = NONE \/ s = ""

InvIds == {"i1", "i2"}

\* the invocations the sequential specification runs
Callers == {"i1"}

Ops == {"retrieve_records", "create_records", "update_records", "delete_records",
        "get_schema", "update_field", "list_tables"}

TableOps == {"retrieve_records", "create_records", "update_records", "delete_records",
             "get_schema"}

-----------------------------------------------------------------------------
(* Table names: sequences of characters *)

Upper(c) == IF c = "a" THEN "A" ELSE c

Lower(c) == IF c = "A" THEN "a" ELSE c

\* str.capitalize()
Capitalize(w) ==
    IF w = <<>> THEN <<>>
    ELSE <<Upper(w[1])>> \o [k \in 1..(Len(w) - 1) |-> Lower(w[k + 1])]

RECURSIVE SplitSpace(_)
\* str.split(' ')
SplitSpace(s) ==
    IF \A k \in 1..Len(s) : s[k] # " " THEN <<s>>
    ELSE LET k == CHOOSE j \in 1..Len(s) : s[j] = " " /\ \A h \in 1..(j - 1) : s[h] # " "
         IN  <<SubSeq(s, 1, k - 1)>> \o SplitSpace(SubSeq(s, k + 1, Len(s)))

RECURSIVE JoinSpace(_)
\* ' '.join(words)
JoinSpace(ws) ==
    IF Len(ws) = 0 THEN <<>>
    ELSE IF Len(ws) = 1 THEN ws[1]
    ELSE ws[1] \o <<" ">> \o JoinSpace(Tail(ws))

\* ' '.join(word.capitalize() for word in table_name.split(' '))
TitleCase(name) ==
    LET ws == SplitSpace(name)
    IN  JoinSpace([k \in 1..Len(ws) |-> Capitalize(ws[k])])

\* table names a caller passes
TableNames == {<<>>, <<"A", "a">>, <<"a", "A">>, <<"a", " ", "a">>}

\* display titles of the backend's tables
Titles == {<<"A", "a">>, <<"a", "A">>, <<"a", " ", "a">>}

TableIds == {"t1", "t2"}

Tables == [title : Titles, id : TableIds]

Listings == UNION {[1..n -> Tables] : n \in 0..MaxTables}

-----------------------------------------------------------------------------
(* Response bodies.  kind is what the body text parses to ("nonjson": not  *)
(* parsable, "empty": no text); n is the number, the length of the array   *)
(* or string, the member count of the object, 1/0 for true/false; list is  *)
(* the "list" member of an object.                                         *)

Body(kind, n, list) == [kind |-> kind, n |-> n, list |-> list]

NoBody == Body("none", 0, <<>>)

JsonKinds == {"object", "array", "number", "string", "bool", "null"}

\* response.json() succeeds
Parsable(b) == b.kind \in JsonKinds

\* bool(value) of a parsed body
Truthy(b) == b.kind # "null" /\ b.n > 0

\* type(value).__name__ of a parsed body
PyType(b) ==
    CASE b.kind = "object" -> "dict"
      [] b.kind = "array"  -> "list"
      [] b.kind = "number" -> "int"
      [] b.kind = "string" -> "str"
      [] b.kind = "bool"   -> "bool"
      [] OTHER             -> "NoneType"

\* str(n) for the numbers that occur
Str(n) ==
    CASE n = 0 -> "0" [] n = 1 -> "1" [] n = 2 -> "2" [] n = 3 -> "3"
      [] n = 200 -> "200" [] n = 204 -> "204" [] n = 404 -> "404" [] n = 500 -> "500"
      [] OTHER -> "n"

\* bodies of a record, schema, field or listing answer that are not a table listing
PlainBodies ==
    {Body("object", 0, <<>>), Body("object", 1, <<>>),
     Body("array", 0, <<>>), Body("array", 1, <<>>),
     Body("number", 0, <<>>), Body("number", 3, <<>>),
     Body("string", 0, <<>>), Body("string", 1, <<>>),
     Body("bool", 0, <<>>), Body("bool", 1, <<>>),
     Body("null", 0, <<>>),
     Body("nonjson", 1, <<>>), Body("empty", 0, <<>>)}

ListingBodies == {Body("object", 1, l) : l \in Listings}

ErrorBodies == {Body("object", 1, <<>>), Body("nonjson", 1, <<>>)}

\* a response: net = TRUE is a transport failure (no response at all)
Resp(net, status, body) == [net |-> net, status |-> status, body |-> body]

NoResponse == Resp(FALSE, 0, NoBody)

NetFailure == Resp(TRUE, 0, NoBody)

ErrorResponses == {Resp(FALSE, s, b) : s \in {404, 500}, b \in ErrorBodies}

\* what the backend may answer to a record, schema, field or list_tables request
Responses ==
    {Resp(FALSE, 200, b) : b \in PlainBodies}
    \cup {Resp(FALSE, 204, Body("empty", 0, <<>>))}
    \cup ErrorResponses \cup {NetFailure}

\* what the backend may answer to get_table_id's listing request
ListingResponses ==
    {Resp(FALSE, 200, b) : b \in ListingBodies}
    \cup {Resp(FALSE, 200, b) : b \in {Body("array", 1, <<>>), Body("null", 0, <<>>),
                                        Body("nonjson", 1, <<>>)}}
    \cup ErrorResponses \cup {NetFailure}

\* response.is_success
IsSuccess(r) == r.status >= 200 /\ r.status < 300

-----------------------------------------------------------------------------
(* Exceptions and the values a tool returns *)

Exc(cls, msg, status, body) == [cls |-> cls, msg |-> msg, status |-> status, body |-> body]

NoExc == Exc("none", <<>>, 0, NoBody)

\* isinstance(e, target) for the classes the except clauses name;
\* json.JSONDecodeError is a subclass of ValueError
IsInstance(cls, target) ==
    CASE target = "Exception"       -> TRUE
      [] target = "ValueError"      -> cls \in {"ValueError", "JSONDecodeError"}
      [] OTHER                      -> cls = target

\* raise ValueError(error_msg)
ValueError(msg) == Exc("ValueError", msg, 0, NoBody)

\* response.raise_for_status() on a non-2xx response; str(e) names the status
HTTPStatusError(r) ==
    Exc("HTTPStatusError",
        <<IF r.status < 500 THEN "Client error '" ELSE "Server error '", Str(r.status),
          "' for url">>,
        r.status, r.body)

\* the awaited request fails in transport
RequestError == Exc("RequestError", <<"All connection attempts failed">>, 0, NoBody)

\* response.json() on a body that is not JSON
JSONDecodeError == Exc("JSONDecodeError", <<"Expecting value: line 1 column 1 (char 0)">>, 0, NoBody)

\* value.get(...) on a parsed body that is not a dict
AttributeError(b) ==
    Exc("AttributeError", <<"'", PyType(b), "' object has no attribute 'get'">>, 0, NoBody)

\* A returned value.  kind "error": {"error": True, "message": message + text
\* [, "status_code": status_code]}; kind "success": {"success": True, "message":
\* message [, "response_data": data]}; kind "body": the parsed response body, data.
Value(kind, has_status, status_code, message, text, d) ==
    [kind |-> kind, has_status |-> has_status, status_code |-> status_code,
     message |-> message, text |-> text, data |-> d]

NoValue == Value("none", FALSE, 0, <<>>, NoBody, NoBody)

\* {"error": True, "message": msg}
ErrorEnvelope(msg) == Value("error", FALSE, 0, msg, NoBody, NoBody)

\* {"error": True, "status_code": e.response.status_code,
\*  "message": f"HTTP error: {e.response.text}"}
HttpErrorEnvelope(e) == Value("error", TRUE, e.status, <<"HTTP error: ">>, e.body, NoBody)

\* return result
PassThrough(b) == Value("body", FALSE, 0, <<>>, NoBody, b)

Returned(v) == [outcome |-> "return", val |-> v, exc |-> NoExc]

Raised(e) == [outcome |-> "raise", val |-> NoValue, exc |-> e]

NoResult == [outcome |-> "none", val |-> NoValue, exc |-> NoExc]

-----------------------------------------------------------------------------
(* Arguments.  A mapping is a token ("m1", "m2"); data is a dict (items is  *)
(* <<token>>, or <<>> for {}), a list of dicts (items are the tokens, "{}"  *)
(* for an empty dict) or None.                                              *)

Data(t, items) == [t |-> t, items |-> items]

DataNone == Data("none", <<>>)

EmptyDict == Data("dict", <<>>)

Dict(tok) == Data("dict", <<tok>>)

List(items) == Data("list", items)

\* not data
Empty(d) == Len(d.items) = 0

\* data[-1]: the last element instead of the first
Last(d) == IF d.items[Len(d.items)] = "{}" THEN EmptyDict ELSE Dict(d.items[Len(d.items)])

\* data[0]
First(d) == IF d.items[1] = "{}" THEN EmptyDict ELSE Dict(d.items[1])

\* [data], for a non-empty dict
Wrap(d) == List(d.items)

\* bulk_ids: <<>> stands for None and for []
DefaultArgs ==
    [table_name |-> <<>>, row_id |-> NONE, data |-> DataNone, bulk |-> FALSE,
     bulk_ids |-> <<>>, field_id |-> "", field_data |-> DataNone, sort |-> NONE,
     include_m2m |-> FALSE]

RowIds == {NONE, "r1"}

BulkIds == {<<>>, <<"1", "2">>}

Sorts == {NONE, "-created_at"}

CreateData == {EmptyDict, Dict("m1"), List(<<>>), List(<<"m1">>), List(<<"m1", "m2">>),
               List(<<"{}", "m1">>)}

UpdateData == {DataNone, EmptyDict, Dict("m1")}

FieldData == {EmptyDict, Dict("m1"), List(<<"m1">>)}

ArgsOf(o) ==
    CASE o = "retrieve_records" ->
           {[DefaultArgs EXCEPT !.table_name = t, !.row_id = r, !.sort = s] :
               t \in TableNames, r \in RowIds, s \in Sorts}
      [] o = "create_records" ->
           {[DefaultArgs EXCEPT !.table_name = t, !.data = d, !.bulk = b] :
               t \in TableNames, d \in CreateData, b \in BOOLEAN}
      [] o = "update_records" ->
           {[DefaultArgs EXCEPT !.table_name = t, !.row_id = r[1], !.data = d,
                                !.bulk = b, !.bulk_ids = r[2]] :
               t \in TableNames, r \in RowIds \X BulkIds, d \in UpdateData, b \in BOOLEAN}
      [] o = "delete_records" ->
           {[DefaultArgs EXCEPT !.table_name = t, !.row_id = r, !.bulk = b,
                                !.bulk_ids = ids] :
               t \in TableNames, r \in RowIds, b \in BOOLEAN, ids \in BulkIds}
      [] o = "get_schema" ->
           {[DefaultArgs EXCEPT !.table_name = t] : t \in TableNames}
      [] o = "update_field" ->
           {[DefaultArgs EXCEPT !.field_id = f, !.field_data = d] :
               f \in {"", "f1"}, d \in FieldData}
      [] OTHER ->
           {[DefaultArgs EXCEPT !.sort = s, !.include_m2m = m] :
               s \in Sorts, m \in BOOLEAN}

-----------------------------------------------------------------------------
(* Parameter validation: the code of each tool before its try block.  The   *)
(* outcome is a rejection with the message returned, or the locals          *)
(* table_name and data the try block runs with.                             *)

Reject(msg) == [ok |-> FALSE, msg |-> msg, tname |-> <<>>, data |-> DataNone]

Accept(tn, d) == [ok |-> TRUE, msg |-> <<>>, tname |-> tn, data |-> d]

RetrieveValidate(a) ==
    IF a.table_name = <<>> THEN Reject(<<"Table name is required">>)
    ELSE Accept(TitleCase(a.table_name), a.data)

\* create_records that posts a single mapping as it is when bulk is set
CreateValidateNoWrap(a) ==
    IF a.table_name = <<>> THEN Reject(<<"Table name is required">>)
    ELSE IF Empty(a.data) THEN Reject(<<"Data is required for record creation">>)
    ELSE IF a.bulk THEN Accept(a.table_name, a.data)
    ELSE IF a.data.t = "list" THEN
        IF Empty(First(a.data))
        THEN Reject(<<"Data dictionary cannot be empty for single record creation">>)
        ELSE Accept(a.table_name, First(a.data))
    ELSE Accept(a.table_name, a.data)

CreateValidate(a) ==
    IF a.table_name = <<>> THEN Reject(<<"Table name is required">>)
    ELSE IF Empty(a.data) THEN Reject(<<"Data is required for record creation">>)
    ELSE IF a.bulk THEN
        IF a.data.t # "list" THEN Accept(a.table_name, Wrap(a.data))
        ELSE IF Empty(a.data) THEN Reject(<<"Data list cannot be empty for bulk creation">>)
        ELSE Accept(a.table_name, a.data)
    ELSE IF a.data.t = "list" THEN
        IF Empty(First(a.data))
        THEN Reject(<<"Data dictionary cannot be empty for single record creation">>)
        ELSE Accept(a.table_name, First(a.data))
    ELSE Accept(a.table_name, a.data)

\* update_records without the "elif not bulk and not row_id" rejection
UpdateValidateNoRowCheck(a) ==
    IF a.table_name = <<>> THEN Reject(<<"Table name is required">>)
    ELSE IF Empty(a.data) THEN Reject(<<"Data parameter is required for updates">>)
    ELSE IF a.bulk /\ a.bulk_ids = <<>>
    THEN Reject(<<"Bulk IDs are required for bulk updates">>)
    ELSE Accept(a.table_name, a.data)

UpdateValidate(a) ==
    IF a.table_name = <<>> THEN Reject(<<"Table name is required">>)
    ELSE IF Empty(a.data) THEN Reject(<<"Data parameter is required for updates">>)
    ELSE IF a.bulk /\ a.bulk_ids = <<>>
    THEN Reject(<<"Bulk IDs are required for bulk updates">>)
    ELSE IF ~a.bulk /\ Falsy(a.row_id)
    THEN Reject(<<"Row ID is required for single record update">>)
    ELSE Accept(a.table_name, a.data)

DeleteValidate(a) ==
    IF a.table_name = <<>> THEN Reject(<<"Table name is required">>)
    ELSE IF a.bulk /\ a.bulk_ids = <<>>
    THEN Reject(<<"Bulk IDs are required for bulk deletion">>)
    ELSE IF ~a.bulk /\ Falsy(a.row_id)
    THEN Reject(<<"Row ID is required for single record deletion">>)
    ELSE Accept(TitleCase(a.table_name), a.data)

SchemaValidate(a) ==
    IF a.table_name = <<>> THEN Reject(<<"Table name is required">>)
    ELSE Accept(a.table_name, a.data)

\* update_field reads the module global NOCODB_BASE_ID
FieldValidate(a, base) ==
    IF Falsy(base) \/ Falsy(a.field_id)
    THEN Reject(<<"Both base_id and field_id are required">>)
    ELSE IF a.field_data.t # "dict" \/ Empty(a.field_data)
    THEN Reject(<<"field_data must be a non-empty dictionary">>)
    ELSE Accept(<<>>, a.field_data)

\* list_tables validates nothing
TablesValidate(a) == Accept(<<>>, a.data)

Validate(o, a, base) ==
    CASE o = "retrieve_records" -> RetrieveValidate(a)
      [] o = "create_records"   -> CreateValidate(a)
      [] o = "update_records"   -> UpdateValidate(a)
      [] o = "delete_records"   -> DeleteValidate(a)
      [] o = "get_schema"       -> SchemaValidate(a)
      [] o = "update_field"     -> FieldValidate(a, base)
      [] OTHER                  -> TablesValidate(a)

-----------------------------------------------------------------------------
(* The except clauses of each tool, in order: the class caught and the      *)
(* format of the envelope returned.                                         *)

Handler(cls, fmt) == [cls |-> cls, fmt |-> fmt]

RetrieveHandlers == <<Handler("HTTPStatusError", "http"), Handler("Exception", "plain")>>

CreateHandlers ==
    <<Handler("HTTPStatusError", "http"), Handler("ValueError", "named"),
      Handler("Exception", "plain")>>

UpdateHandlers == <<Handler("HTTPStatusError", "http"), Handler("Exception", "plain")>>

\* delete_records without its "except Exception" clause
DeleteHandlersNoCatchAll == <<Handler("HTTPStatusError", "http")>>

DeleteHandlers == <<Handler("HTTPStatusError", "http"), Handler("Exception", "plain")>>

SchemaHandlers ==
    <<Handler("HTTPStatusError", "http"), Handler("ValueError", "named"),
      Handler("Exception", "plain")>>

FieldHandlers == <<Handler("Exception", "field")>>

TablesHandlers == <<Handler("Exception", "tables")>>

Handlers(o) ==
    CASE o = "retrieve_records" -> RetrieveHandlers
      [] o = "create_records"   -> CreateHandlers
      [] o = "update_records"   -> UpdateHandlers
      [] o = "delete_records"   -> DeleteHandlers
      [] o = "get_schema"       -> SchemaHandlers
      [] o = "update_field"     -> FieldHandlers
      [] OTHER                  -> TablesHandlers

\* the "Error ... '" that starts error_msg in the ValueError clauses
NamedPrefix(o) ==
    IF o = "create_records" THEN "Error creating records in '"
    ELSE "Error retrieving schema for '"

\* the envelope an except clause returns
Envelope(fmt, o, e, tn, a, base) ==
    CASE fmt = "http"   -> HttpErrorEnvelope(e)
      [] fmt = "named"  -> ErrorEnvelope(<<NamedPrefix(o)>> \o tn \o <<"': ">> \o e.msg)
      [] fmt = "plain"  -> ErrorEnvelope(<<"Error: ">> \o e.msg)
      [] fmt = "field"  ->
           ErrorEnvelope(<<"Failed to update field '", a.field_id, "' in base '", base,
                           "': ">> \o e.msg)
      [] OTHER          ->
           ErrorEnvelope(<<"Failed to list tables in base '", base, "': ">> \o e.msg)

\* an exception raised in the try block of tool o: the first clause that
\* matches returns its envelope; with none, the exception leaves the tool
Catch(o, e, tn, a, base) ==
    LET hs == Handlers(o)
        matching == {k \in 1..Len(hs) : IsInstance(e.cls, hs[k].cls)}
    IN  IF matching = {} THEN Raised(e)
        ELSE LET k == CHOOSE j \in matching : \A h \in matching : j <= h
             IN  Returned(Envelope(hs[k].fmt, o, e, tn, a, base))

\* the tools whose try block has "finally: if 'client' in locals(): await client.aclose()"
HasFinally(o) == o \in TableOps

\* where a tool goes when its try block returns or raises
After(o) == IF HasFinally(o) THEN "finally" ELSE "done"

-----------------------------------------------------------------------------
(* get_nocodb_client *)

\* the exception get_nocodb_client raises, NoExc when it returns a client
ClientError(cfg) ==
    IF Falsy(cfg.url) THEN ValueError(<<"NOCODB_URL environment variable is not set">>)
    ELSE IF Falsy(cfg.token)
    THEN ValueError(<<"NOCODB_API_TOKEN environment variable is not set">>)
    ELSE NoExc

\* the client objects of the process
ClientIds == {"c1", "c2"}

\* a single client object kept for the whole process
SharedClient(h) == "c1"

\* httpx.AsyncClient(...): an object no invocation holds yet
NewClient(h) == CHOOSE c \in ClientIds : \A i \in InvIds : h[i] # c

-----------------------------------------------------------------------------
(* Requests *)

Payload(t, items, ids) == [t |-> t, items |-> items, ids |-> ids]

NoPayload == Payload("none", <<>>, <<>>)

\* json=data
DataPayload(d) == Payload(d.t, d.items, <<>>)

Req(method, path, json, query) ==
    [method |-> method, path |-> path, json |-> json, query |-> query]

NoReq == Req("none", <<>>, NoPayload, {})

Send(req) == [send |-> TRUE, req |-> req, msg |-> <<>>]

\* the try block returns an error envelope and sends nothing
NoSend(msg) == [send |-> FALSE, req |-> NoReq, msg |-> msg]

SortParam(a) == IF Falsy(a.sort) THEN {} ELSE {<<"sort", a.sort>>}

\* get_table_id's request
ListingRequest(base) == Req("GET", <<"/api/v2/meta/bases/", base, "/tables">>, NoPayload, {})

RetrieveRequest(a, tid) ==
    IF ~Falsy(a.row_id)
    THEN Send(Req("GET", <<"/api/v2/tables/", tid, "/records/", a.row_id>>, NoPayload, {}))
    ELSE Send(Req("GET", <<"/api/v2/tables/", tid, "/records">>, NoPayload,
                  {<<"limit", "10">>, <<"offset", "0">>} \cup SortParam(a)))

CreateRequest(a, d, tid) ==
    IF a.bulk
    THEN Send(Req("POST", <<"/api/v2/tables/", tid, "/records/bulk">>, DataPayload(d), {}))
    ELSE Send(Req("POST", <<"/api/v2/tables/", tid, "/records">>, DataPayload(d), {}))

\* update_records that tests row_id before bulk
UpdateRequestRowFirst(a, d, tid) ==
    IF ~Falsy(a.row_id)
    THEN Send(Req("PATCH", <<"/api/v2/tables/", tid, "/records/", a.row_id>>,
                  DataPayload(d), {}))
    ELSE IF a.bulk /\ a.bulk_ids # <<>>
    THEN Send(Req("PATCH", <<"/api/v2/tables/", tid, "/records/bulk">>,
                  Payload("ids_data", d.items, a.bulk_ids), {}))
    ELSE NoSend(<<"Either row_id (for single update) or bulk=True with bulk_ids (for bulk update) must be provided">>)

UpdateRequest(a, d, tid) ==
    IF a.bulk /\ a.bulk_ids # <<>>
    THEN Send(Req("PATCH", <<"/api/v2/tables/", tid, "/records/bulk">>,
                  Payload("ids_data", d.items, a.bulk_ids), {}))
    ELSE IF ~Falsy(a.row_id)
    THEN Send(Req("PATCH", <<"/api/v2/tables/", tid, "/records/", a.row_id>>,
                  DataPayload(d), {}))
    ELSE NoSend(<<"Either row_id (for single update) or bulk=True with bulk_ids (for bulk update) must be provided">>)

DeleteRequest(a, tid) ==
    IF a.bulk /\ a.bulk_ids # <<>>
    THEN Send(Req("DELETE", <<"/api/v2/tables/", tid, "/records/bulk">>,
                  Payload("ids", <<>>, a.bulk_ids), {}))
    ELSE IF ~Falsy(a.row_id)
    THEN Send(Req("DELETE", <<"/api/v2/tables/", tid, "/records/", a.row_id>>,
                  NoPayload, {}))
    ELSE NoSend(<<"Either row_id (for single deletion) or bulk=True with bulk_ids (for bulk deletion) must be provided">>)

SchemaRequest(tid) == Send(Req("GET", <<"/api/v2/meta/tables/", tid>>, NoPayload, {}))

FieldRequest(a, base) ==
    Send(Req("PATCH", <<"/api/v3/meta/bases/", base, "/fields/", a.field_id>>,
             DataPayload(a.field_data), {}))

TablesRequest(a, base) ==
    Send(Req("GET", <<"/api/v2/meta/bases/", base, "/tables">>, NoPayload,
             {<<"page", "1">>, <<"pageSize", "25">>,
              <<"includeM2M", IF a.include_m2m THEN "true" ELSE "false">>}
             \cup SortParam(a)))

\* the request tool o issues once it has its client (and table id)
BuildRequest(o, a, d, tid, base) ==
    CASE o = "retrieve_records" -> RetrieveRequest(a, tid)
      [] o = "create_records"   -> CreateRequest(a, d, tid)
      [] o = "update_records"   -> UpdateRequest(a, d, tid)
      [] o = "delete_records"   -> DeleteRequest(a, tid)
      [] o = "get_schema"       -> SchemaRequest(tid)
      [] o = "update_field"     -> FieldRequest(a, base)
      [] OTHER                  -> TablesRequest(a, base)

-----------------------------------------------------------------------------
(* get_table_id *)

Found(id) == [found |-> TRUE, id |-> id]

NotFound == [found |-> FALSE, id |-> NONE]

RECURSIVE ScanLast(_, _, _, _)
\* a scan that keeps going after a match
ScanLast(tables, name, k, best) ==
    IF k > Len(tables) THEN best
    ELSE IF tables[k].title = name THEN ScanLast(tables, name, k + 1, Found(tables[k].id))
    ELSE ScanLast(tables, name, k + 1, best)

\* a lookup that returns the last table with the title
FindTableLast(tables, name) == ScanLast(tables, name, 1, NotFound)

RECURSIVE Scan(_, _, _)
\* for table in tables: if table.get("title") == table_name: return table.get("id")
Scan(tables, name, k) ==
    IF k > Len(tables) THEN NotFound
    ELSE IF tables[k].title = name THEN Found(tables[k].id)
    ELSE Scan(tables, name, k + 1)

FindTable(tables, name) == Scan(tables, name, 1)

\* get_table_id lets the HTTPStatusError of the listing request through
ListingStatusErrorPropagated(r) == HTTPStatusError(r)

\* except httpx.HTTPStatusError: raise ValueError("Failed to get tables list: HTTP <status>")
ListingStatusError(r) == ValueError(<<"Failed to get tables list: HTTP ", Str(r.status)>>)

\* raise ValueError(f"Table '{table_name}' not found in base '{NOCODB_BASE_ID}'")
TableNotFound(name, base) ==
    ValueError(<<"Table '">> \o name \o <<"' not found in base '", base, "'">>)

GotId(id) == [outcome |-> "return", id |-> id, exc |-> NoExc]

NoId(e) == [outcome |-> "raise", id |-> NONE, exc |-> e]

\* get_table_id that answers with a remembered id when the listing request
\* fails
GetTableIdRemembered(r, name, base) ==
    IF r.net \/ ~IsSuccess(r) THEN GotId("t1")
    ELSE IF ~Parsable(r.body) THEN NoId(JSONDecodeError)
    ELSE IF r.body.kind # "object" THEN NoId(AttributeError(r.body))
    ELSE LET f == FindTable(r.body.list, name)
         IN  IF f.found THEN GotId(f.id) ELSE NoId(TableNotFound(name, base))

\* get_table_id from the answer r to its listing request on
GetTableId(r, name, base) ==
    IF r.net THEN NoId(RequestError)
    ELSE IF ~IsSuccess(r) THEN NoId(ListingStatusError(r))
    ELSE IF ~Parsable(r.body) THEN NoId(JSONDecodeError)
    ELSE IF r.body.kind # "object" THEN NoId(AttributeError(r.body))
    ELSE LET f == FindTable(r.body.list, name)
         IN  IF f.found THEN GotId(f.id) ELSE NoId(TableNotFound(name, base))

-----------------------------------------------------------------------------
(* What each tool does with the answer to its own request *)

\* {"success": True, "message": msg [, "response_data": d]}
SuccessEnvelope(msg, d) == Value("success", FALSE, 0, msg, NoBody, d)

\* str(result) of a parsed number or boolean
PyStr(b) ==
    IF b.kind = "bool" THEN (IF b.n = 1 THEN "True" ELSE "False") ELSE Str(b.n)

\* result.get(...) on the parsed body, then return result
GetThenReturn(b) ==
    IF b.kind # "object" THEN Raised(AttributeError(b)) ELSE Returned(PassThrough(b))

RetrieveResult(a, b) ==
    IF ~Falsy(a.row_id)
    THEN (IF Truthy(b) THEN GetThenReturn(b) ELSE Returned(PassThrough(b)))
    ELSE GetThenReturn(b)

\* delete_records without its "except json.JSONDecodeError" clause
DeleteResultNoDecodeCatch(r) ==
    IF r.status = 204
    THEN Returned(SuccessEnvelope(<<"Record(s) deleted successfully">>, NoBody))
    ELSE IF ~Parsable(r.body) THEN Raised(JSONDecodeError)
    ELSE IF r.body.kind \in {"number", "bool"}
    THEN Returned(SuccessEnvelope(<<PyStr(r.body), " record(s) deleted successfully">>,
                                  NoBody))
    ELSE IF r.body.kind # "object"
    THEN Returned(SuccessEnvelope(<<"Record(s) deleted successfully">>, r.body))
    ELSE Returned(PassThrough(r.body))

\* isinstance(result, (int, float)): bool is a subclass of int
DeleteResult(r) ==
    IF r.status = 204
    THEN Returned(SuccessEnvelope(<<"Record(s) deleted successfully">>, NoBody))
    ELSE IF ~Parsable(r.body)
    THEN Returned(SuccessEnvelope(<<"Record(s) deleted successfully (non-JSON response)">>,
                                  NoBody))
    ELSE IF r.body.kind \in {"number", "bool"}
    THEN Returned(SuccessEnvelope(<<PyStr(r.body), " record(s) deleted successfully">>,
                                  NoBody))
    ELSE IF r.body.kind # "object"
    THEN Returned(SuccessEnvelope(<<"Record(s) deleted successfully">>, r.body))
    ELSE Returned(PassThrough(r.body))

\* the try block of tool o from the answer r to its request on
Receive(o, a, r) ==
    IF r.net THEN Raised(RequestError)
    ELSE IF ~IsSuccess(r) THEN Raised(HTTPStatusError(r))
    ELSE IF o = "delete_records" THEN DeleteResult(r)
    ELSE IF ~Parsable(r.body) THEN Raised(JSONDecodeError)
    ELSE CASE o = "retrieve_records" -> RetrieveResult(a, r.body)
           [] o = "create_records"   -> Returned(PassThrough(r.body))
           [] o = "update_records"   -> Returned(PassThrough(r.body))
           [] o = "get_schema"       -> GetThenReturn(r.body)
           [] o = "update_field"     -> Returned(PassThrough(r.body))
           [] OTHER                  -> GetThenReturn(r.body)

\* what the try block of invocation i ends with: a raised exception goes
\* through the except clauses
Settle(i, res) ==
    IF res.outcome = "raise"
    THEN Catch(op[i], res.exc, tname[i], args[i], config.base)
    ELSE res

-----------------------------------------------------------------------------
(* The state machine *)

Configs == [url : {NONE, "http://nocodb"}, token : {NONE, "tok"}, base : {NONE, "b1"}]

Init ==
    /\ config \in Configs
    /\ pc = [i \in InvIds |-> "idle"]
    /\ op = [i \in InvIds |-> "none"]
    /\ args = [i \in InvIds |-> DefaultArgs]
    /\ tname = [i \in InvIds |-> <<>>]
    /\ data = [i \in InvIds |-> DataNone]
    /\ client = [i \in InvIds |-> "none"]
    /\ handle = [i \in InvIds |-> NONE]
    /\ closed = {}
    /\ table_id = [i \in InvIds |-> NONE]
    /\ response = [i \in InvIds |-> NoResponse]
    /\ sent = [i \in InvIds |-> <<>>]
    /\ result = [i \in InvIds |-> NoResult]

\* the calls a client of the server may make
Calls == UNION {{<<o, a>> : a \in ArgsOf(o)} : o \in Ops}

\* the tool is called with one of calls: parameter validation, up to the try
\* block
InvokeAmong(i, calls) ==
    /\ pc[i] = "idle"
    /\ \E c \in calls :
         LET o == c[1]
             a == c[2]
             v == Validate(o, a, config.base)
         IN  /\ op' = [op EXCEPT ![i] = o]
             /\ args' = [args EXCEPT ![i] = a]
             /\ tname' = [tname EXCEPT ![i] = v.tname]
             /\ data' = [data EXCEPT ![i] = v.data]
             /\ IF v.ok
                THEN /\ pc' = [pc EXCEPT ![i] = "acquire"]
                     /\ UNCHANGED result
                ELSE /\ pc' = [pc EXCEPT ![i] = "done"]
                     /\ result' = [result EXCEPT ![i] = Returned(ErrorEnvelope(v.msg))]
    /\ UNCHANGED <<config, client, handle, closed, table_id, response, sent>>

Invoke(i) == InvokeAmong(i, Calls)

\* client = await get_nocodb_client(ctx)
Acquire(i) ==
    /\ pc[i] = "acquire"
    /\ LET e == ClientError(config)
       IN  IF e # NoExc
           THEN /\ result' = [result EXCEPT ![i] = Settle(i, Raised(e))]
                /\ pc' = [pc EXCEPT ![i] = After(op[i])]
                /\ UNCHANGED <<client, handle>>
           ELSE /\ client' = [client EXCEPT ![i] = "open"]
                /\ handle' = [handle EXCEPT ![i] = NewClient(handle)]
                /\ pc' = [pc EXCEPT ![i] = IF op[i] \in TableOps THEN "resolve" ELSE "request"]
                /\ UNCHANGED result
    /\ UNCHANGED <<config, op, args, tname, data, closed, table_id, response, sent>>

\* get_table_id up to its awaited client.get
ResolveSend(i) ==
    /\ pc[i] = "resolve"
    /\ IF Falsy(config.base)
       THEN /\ result' = [result EXCEPT ![i] =
                   Settle(i, Raised(ValueError(<<"NOCODB_BASE_ID environment variable is not set">>)))]
            /\ pc' = [pc EXCEPT ![i] = After(op[i])]
            /\ UNCHANGED sent
       ELSE /\ sent' = [sent EXCEPT ![i] = Append(@, ListingRequest(config.base))]
            /\ pc' = [pc EXCEPT ![i] = "resolve_wait"]
            /\ UNCHANGED result
    /\ UNCHANGED <<config, op, args, tname, data, client, handle, closed, table_id, response>>

\* the listing request is answered with one of rs; get_table_id returns or
\* raises
ResolveRecvAmong(i, rs) ==
    /\ pc[i] = "resolve_wait"
    /\ \E r \in rs :
         LET g == GetTableId(r, tname[i], config.base)
         IN  /\ response' = [response EXCEPT ![i] = r]
             /\ IF g.outcome = "raise"
                THEN /\ result' = [result EXCEPT ![i] = Settle(i, Raised(g.exc))]
                     /\ pc' = [pc EXCEPT ![i] = After(op[i])]
                     /\ UNCHANGED table_id
                ELSE /\ table_id' = [table_id EXCEPT ![i] = g.id]
                     /\ pc' = [pc EXCEPT ![i] = "request"]
                     /\ UNCHANGED result
    /\ UNCHANGED <<config, op, args, tname, data, client, handle, closed, sent>>

ResolveRecv(i) == ResolveRecvAmong(i, ListingResponses)

\* the tool builds its request, up to the awaited client call
RequestSend(i) ==
    /\ pc[i] = "request"
    /\ LET b == BuildRequest(op[i], args[i], data[i], table_id[i], config.base)
       IN  IF b.send
           THEN /\ sent' = [sent EXCEPT ![i] = Append(@, b.req)]
                /\ pc' = [pc EXCEPT ![i] = "request_wait"]
                /\ UNCHANGED result
           ELSE /\ result' = [result EXCEPT ![i] = Returned(ErrorEnvelope(b.msg))]
                /\ pc' = [pc EXCEPT ![i] = After(op[i])]
                /\ UNCHANGED sent
    /\ UNCHANGED <<config, op, args, tname, data, client, handle, closed, table_id, response>>

\* the request is answered with one of rs; the try block returns or raises
RequestRecvAmong(i, rs) ==
    /\ pc[i] = "request_wait"
    /\ \E r \in rs :
         /\ response' = [response EXCEPT ![i] = r]
         /\ result' = [result EXCEPT ![i] = Settle(i, Receive(op[i], args[i], r))]
         /\ pc' = [pc EXCEPT ![i] = After(op[i])]
    /\ UNCHANGED <<config, op, args, tname, data, client, handle, closed, table_id, sent>>

RequestRecv(i) == RequestRecvAmong(i, Responses)

\* finally: if 'client' in locals(): await client.aclose()
Finally(i) ==
    /\ pc[i] = "finally"
    /\ client' = [client EXCEPT ![i] = IF @ = "none" THEN "none" ELSE "closed"]
    /\ closed' = IF client[i] = "none" THEN closed ELSE closed \cup {handle[i]}
    /\ pc' = [pc EXCEPT ![i] = "done"]
    /\ UNCHANGED <<config, op, args, tname, data, handle, table_id, response, sent, result>>

Next ==
    \E i \in Callers :
        \/ Invoke(i)
        \/ Acquire(i)
        \/ ResolveSend(i)
        \/ ResolveRecv(i)
        \/ RequestSend(i)
        \/ RequestRecv(i)
        \/ Finally(i)

Spec == Init /\ [][Next]_vars

-----------------------------------------------------------------------------
(* Vocabulary of the properties *)

Started == {i \in InvIds : op[i] # "none"}

\* invocation i has left its tool (returned or raised)
Done(i) == pc[i] = "done"

\* r is an answer with a non-2xx status
HttpFailure(r) == r # NoResponse /\ ~r.net /\ ~IsSuccess(r)

\* r is a 2xx answer whose body is a JSON object
ObjectAnswer(r) == r # NoResponse /\ ~r.net /\ IsSuccess(r) /\ r.body.kind = "object"

\* the listing request of get_table_id was answered, and nothing was sent since
ListingAnswered(i) ==
    op[i] \in TableOps /\ Len(sent[i]) = 1 /\ response[i] # NoResponse

\* the tool's own request (record, schema, field, list_tables) was answered
OwnAnswered(i) ==
    /\ pc[i] \in {"finally", "done"}
    /\ Len(sent[i]) = (IF op[i] \in TableOps THEN 2 ELSE 1)
    /\ response[i] # NoResponse

\* t ends with s
IsSuffix(s, t) == Len(s) <= Len(t) /\ SubSeq(t, Len(t) - Len(s) + 1, Len(t)) = s

\* a returned value that is a JSON mapping
IsMapping(v) == v.kind \in {"error", "success"} \/ (v.kind = "body" /\ v.data.kind = "object")

ConfigComplete == ~Falsy(config.url) /\ ~Falsy(config.token) /\ ~Falsy(config.base)

-----------------------------------------------------------------------------
(* C1 *)

\* C1: every invocation that acquired a client has closed it by the time it
\* returns, in all seven tools and on every exit path.
C1_ClientClosedOnReturn ==
    \A i \in Started : Done(i) => client[i] # "open"

-----------------------------------------------------------------------------
(* C2 *)

\* C2: every invocation ends by returning exactly one value: whatever is
\* raised by get_nocodb_client, get_table_id, the request, raise_for_status or
\* the decoding of the answer, no exception leaves the tool, and an
\* invocation that has not returned can always take its next step.
C2_AlwaysReturns ==
    \A i \in Callers :
        /\ result[i].outcome # "raise"
        /\ pc[i] \in {"finally", "done"} =>
               result[i].outcome = "return" /\ result[i].val # NoValue
        /\ pc[i] \notin {"finally", "done"} => result[i] = NoResult
        /\ ~Done(i) =>
               ENABLED (Invoke(i) \/ Acquire(i) \/ ResolveSend(i) \/ ResolveRecv(i)
                        \/ RequestSend(i) \/ RequestRecv(i) \/ Finally(i))

\* delete_records returned an envelope after its DELETE failed in transport
C2_Witness ==
    \E i \in Started :
        /\ Done(i) /\ op[i] = "delete_records" /\ Len(sent[i]) = 2
        /\ response[i].net
        /\ result[i].outcome = "return" /\ result[i].val.kind = "error"

-----------------------------------------------------------------------------
(* C3 *)

\* C3: the value a tool returns is always a JSON mapping, also when the
\* backend answers 2xx with a JSON body that is not a mapping.
C3_ReturnsMapping ==
    \A i \in Started : result[i].outcome = "return" => IsMapping(result[i].val)

-----------------------------------------------------------------------------
(* C4 *)

\* C4: in all tools, a non-2xx answer (status s, body text b) to the tool's
\* own request makes it return exactly
\* {error: true, status_code: s, message: "HTTP error: " + b}.
C4_HttpErrorEnvelope ==
    \A i \in Started :
        (OwnAnswered(i) /\ HttpFailure(response[i])) =>
            result[i] = Returned(Value("error", TRUE, response[i].status,
                                       <<"HTTP error: ">>, response[i].body, NoBody))

-----------------------------------------------------------------------------
(* C5 *)

-----------------------------------------------------------------------------
(* C6 *)

\* the table listing was answered with a JSON object and no title in it
\* equals the name looked up
TableAbsent(i) ==
    /\ ListingAnswered(i) /\ ObjectAnswer(response[i])
    /\ \A k \in 1..Len(response[i].body.list) : response[i].body.list[k].title # tname[i]

\* the call passed parameter validation and NOCODB_URL or NOCODB_API_TOKEN is missing
ClientConfigMissing(i) ==
    /\ Validate(op[i], args[i], config.base).ok
    /\ pc[i] \in {"finally", "done"}
    /\ Falsy(config.url) \/ Falsy(config.token)

\* the last request failed in transport
TransportFailed(i) == pc[i] \in {"finally", "done"} /\ response[i].net

\* the description (str(e)) of each such failure
FailureDescription(i) ==
    IF ClientConfigMissing(i)
    THEN (IF Falsy(config.url) THEN <<"NOCODB_URL environment variable is not set">>
          ELSE <<"NOCODB_API_TOKEN environment variable is not set">>)
    ELSE IF TransportFailed(i) THEN <<"All connection attempts failed">>
    ELSE <<"Table '">> \o tname[i] \o <<"' not found in base '", config.base, "'">>

\* C6: in all tools, a failure that is not a non-2xx answer (missing
\* configuration, table not found, transport failure) gives exactly
\* {error: true, message: "Error: " + description}, with no status_code, in
\* the same format in every tool.
C6_UniformErrorMessage ==
    \A i \in Started :
        (ClientConfigMissing(i) \/ TransportFailed(i) \/ TableAbsent(i)) =>
            result[i] = Returned(Value("error", FALSE, 0,
                                       <<"Error: ">> \o FailureDescription(i),
                                       NoBody, NoBody))

-----------------------------------------------------------------------------
(* C7 *)

\* C7: while any of the backend URL, the API token and the base identifier is
\* missing, no client is handed out and no request is issued, and every call
\* that passed parameter validation ends in an error envelope with zero
\* requests sent.
C7_NothingWithoutConfig ==
    \A i \in Started :
        ~ConfigComplete =>
            /\ client[i] = "none"
            /\ sent[i] = <<>>
            /\ Done(i) => (result[i].outcome = "return" /\ result[i].val.kind = "error")

-----------------------------------------------------------------------------
(* C8 *)

\* the calls the claim lists as rejected by parameter validation
InvalidCall(o, a) ==
    \/ o \in TableOps /\ a.table_name = <<>>
    \/ o \in {"create_records", "update_records"} /\ Len(a.data.items) = 0
    \/ o = "create_records" /\ ~a.bulk /\ a.data.t = "list" /\ Len(a.data.items) > 0
         /\ a.data.items[1] = "{}"
    \/ o = "update_field"
         /\ (a.field_id = "" \/ a.field_data.t # "dict" \/ Len(a.field_data.items) = 0)
    \/ o \in {"update_records", "delete_records"}
         /\ Falsy(a.row_id) /\ ~(a.bulk /\ a.bulk_ids # <<>>)

\* C8: a call rejected by parameter validation (empty table_name; empty data;
\* data empty after coercion; bad field_id or field_data; neither row_id nor
\* bulk with bulk_ids) has returned an error envelope, acquired no client and
\* issued no request.
C8_RejectedBeforeClient ==
    \A i \in Started :
        InvalidCall(op[i], args[i]) =>
            /\ Done(i)
            /\ result[i].outcome = "return"
            /\ result[i].val.kind = "error" /\ ~result[i].val.has_status
            /\ client[i] = "none"
            /\ sent[i] = <<>>

\* update_records with a table name and data but neither row_id nor bulk was
\* rejected although the configuration is complete
C8_Witness ==
    \E i \in Started :
        /\ op[i] = "update_records" /\ Done(i) /\ ConfigComplete
        /\ args[i].table_name # <<>> /\ args[i].data = Dict("m1")
        /\ Falsy(args[i].row_id) /\ ~args[i].bulk /\ args[i].bulk_ids # <<>>
        /\ result[i].val.message = <<"Row ID is required for single record update">>
        /\ client[i] = "none" /\ sent[i] = <<>>

-----------------------------------------------------------------------------
(* C9 *)

\* the positions of the listed tables whose title is name
Matches(listing, name) == {k \in 1..Len(listing) : listing[k].title = name}

\* C9: on a successful listing answer get_table_id returns the id of the
\* first listed table whose title equals the name it was given, and when no
\* title equals it, it returns no id and fails with the not-found error.
C9_FirstMatchOrNotFound ==
    \A i \in Started :
        (ListingAnswered(i) /\ ObjectAnswer(response[i])) =>
            LET listing == response[i].body.list
                m == Matches(listing, tname[i])
            IN  IF m = {}
                THEN /\ pc[i] \in {"finally", "done"}
                     /\ table_id[i] = NONE
                     /\ result[i].outcome = "return" /\ result[i].val.kind = "error"
                     /\ IsSuffix(<<"Table '">> \o tname[i]
                                    \o <<"' not found in base '", config.base, "'">>,
                                 result[i].val.message)
                ELSE /\ pc[i] = "request"
                     /\ result[i] = NoResult
                     /\ \E k \in m : /\ \A h \in m : k <= h
                                     /\ table_id[i] = listing[k].id

\* two listed tables share the title looked up and have different ids; the
\* first one's id was returned
C9_Witness ==
    \E i \in Started :
        /\ ListingAnswered(i) /\ ObjectAnswer(response[i])
        /\ Len(response[i].body.list) = 2
        /\ response[i].body.list[1].title = tname[i]
        /\ response[i].body.list[2].title = tname[i]
        /\ response[i].body.list[1].id # response[i].body.list[2].id
        /\ table_id[i] = response[i].body.list[1].id

-----------------------------------------------------------------------------
(* C10 *)

\* C10: each of the five table tools looks up the caller's table_name
\* unchanged: when it equals the title of a listed table, resolution succeeds
\* with the id of the first table of that title.
C10_NameLookedUpUnchanged ==
    \A i \in Started :
        (ListingAnswered(i) /\ ObjectAnswer(response[i])) =>
            LET listing == response[i].body.list
                m == Matches(listing, args[i].table_name)
            IN  m # {} =>
                    /\ pc[i] = "request"
                    /\ \E k \in m : /\ \A h \in m : k <= h
                                    /\ table_id[i] = listing[k].id

-----------------------------------------------------------------------------
(* C11 *)

\* the tool's own request, once issued (the second request of a table tool)
OwnRequest(i) == sent[i][2]

\* invocation i of a table tool has issued its own request
OwnSent(i) == op[i] \in TableOps /\ Len(sent[i]) = 2

\* C11: create_records with bulk=true sends, for data = a non-empty mapping m
\* and for data = the one-element sequence [m], the same request: a POST to
\* the bulk endpoint of the resolved table whose body is the sequence [m].
C11_BulkSingleMappingAsList ==
    \A i \in Started :
        (op[i] = "create_records" /\ args[i].bulk /\ OwnSent(i)) =>
            \A m \in {"m1", "m2"} :
                args[i].data \in {[t |-> "dict", items |-> <<m>>],
                                  [t |-> "list", items |-> <<m>>]} =>
                    OwnRequest(i) =
                        [method |-> "POST",
                         path |-> <<"/api/v2/tables/", table_id[i], "/records/bulk">>,
                         json |-> [t |-> "list", items |-> <<m>>, ids |-> <<>>],
                         query |-> {}]

\* a bulk create called with the single mapping m1 posted the sequence [m1]
C11_Witness ==
    \E i \in Started :
        /\ op[i] = "create_records" /\ args[i].bulk /\ OwnSent(i)
        /\ args[i].data = [t |-> "dict", items |-> <<"m1">>]
        /\ OwnRequest(i).json = [t |-> "list", items |-> <<"m1">>, ids |-> <<>>]

-----------------------------------------------------------------------------
(* C12 *)

\* the mapping tokens that occur in the body of a request
Posted(req) == {req.json.items[k] : k \in 1..Len(req.json.items)}

\* C12: create_records with bulk=false and data a sequence of mappings: when
\* the first element is non-empty the request is a POST to the single-record
\* endpoint whose body is exactly the first element, and no later element
\* appears in any request; when the first element is empty the call is a
\* validation error whatever the later elements are.
C12_SingleUsesFirstElement ==
    \A i \in Started :
        (op[i] = "create_records" /\ ~args[i].bulk /\ args[i].table_name # <<>>
         /\ args[i].data.t = "list" /\ Len(args[i].data.items) > 0) =>
            LET items == args[i].data.items
            IN  IF items[1] = "{}"
                THEN /\ Done(i) /\ sent[i] = <<>> /\ client[i] = "none"
                     /\ result[i].outcome = "return"
                     /\ result[i].val.kind = "error"
                ELSE /\ \A k \in 1..Len(sent[i]) :
                            Posted(sent[i][k]) \subseteq {items[1]}
                     /\ OwnSent(i) =>
                            OwnRequest(i) =
                                [method |-> "POST",
                                 path |-> <<"/api/v2/tables/", table_id[i], "/records">>,
                                 json |-> [t |-> "dict", items |-> <<items[1]>>,
                                           ids |-> <<>>],
                                 query |-> {}]

\* a single create called with [m1, m2] posted m1
C12_Witness ==
    \E i \in Started :
        /\ op[i] = "create_records" /\ ~args[i].bulk /\ OwnSent(i)
        /\ args[i].data = [t |-> "list", items |-> <<"m1", "m2">>]
        /\ OwnRequest(i).json = [t |-> "dict", items |-> <<"m1">>, ids |-> <<>>]

-----------------------------------------------------------------------------
(* C13 *)

\* delete_records got a 2xx answer to its DELETE
DeleteAnswered(i) ==
    /\ op[i] = "delete_records" /\ OwnAnswered(i)
    /\ ~response[i].net /\ IsSuccess(response[i])

\* C13: delete_records on a 2xx, non-204 answer with a JSON body: a number n
\* gives {success, "<n> record(s) deleted successfully"}; a list, string,
\* boolean or null gives {success, message, response_data: body}; a mapping is
\* returned as it is.  A boolean is never reported as a count.
C13_DeleteBodyCases ==
    \A i \in Started :
        (DeleteAnswered(i) /\ response[i].status # 204
         /\ response[i].body.kind \in JsonKinds) =>
            LET b == response[i].body
                v == result[i].val
            IN  /\ result[i].outcome = "return"
                /\ b.kind = "number" =>
                       /\ v.kind = "success" /\ v.data = NoBody
                       /\ v.message = <<Str(b.n), " record(s) deleted successfully">>
                /\ b.kind \in {"array", "string", "bool", "null"} =>
                       /\ v.kind = "success" /\ v.data = b
                       /\ Len(v.message) = 1
                /\ b.kind = "object" => (v.kind = "body" /\ v.data = b)

-----------------------------------------------------------------------------
(* C14 *)

\* the answers the claim lists: 204, or 2xx with an empty or non-JSON body
NoContentAnswer(i) ==
    /\ DeleteAnswered(i)
    /\ response[i].status = 204 \/ response[i].body.kind \in {"empty", "nonjson"}

-----------------------------------------------------------------------------
(* C15 *)

\* the positions of the PATCH requests invocation i has sent
Patches(i) == {k \in 1..Len(sent[i]) : sent[i][k].method = "PATCH"}

\* the invocation got past get_table_id with a table id
PastLookup(i) == pc[i] \in {"request_wait", "finally", "done"} /\ Len(sent[i]) >= 1
                 /\ table_id[i] # NONE

\* C15: update_records issues exactly one PATCH once the table is resolved:
\* with bulk set and bulk_ids non-empty it goes to the bulk endpoint with body
\* {ids: bulk_ids, data: data} whatever row_id is; without bulk it goes to the
\* endpoint of row_id with body data whatever bulk_ids is; the "Either row_id
\* ... or bulk=True with bulk_ids ... must be provided" branch is never taken.
C15_OnePatchByBulkFlag ==
    \A i \in Started :
        op[i] = "update_records" =>
            /\ Cardinality(Patches(i)) <= 1
            /\ Patches(i) \subseteq {2}
            /\ PastLookup(i) => OwnSent(i)
            /\ result[i] # Returned(ErrorEnvelope(<<"Either row_id (for single update) or bulk=True with bulk_ids (for bulk update) must be provided">>))
            /\ OwnSent(i) =>
                   /\ Patches(i) = {2}
                   /\ (args[i].bulk /\ args[i].bulk_ids # <<>>) =>
                          OwnRequest(i) =
                              [method |-> "PATCH",
                               path |-> <<"/api/v2/tables/", table_id[i], "/records/bulk">>,
                               json |-> [t |-> "ids_data", items |-> args[i].data.items,
                                         ids |-> args[i].bulk_ids],
                               query |-> {}]
                   /\ ~args[i].bulk =>
                          OwnRequest(i) =
                              [method |-> "PATCH",
                               path |-> <<"/api/v2/tables/", table_id[i], "/records/",
                                          args[i].row_id>>,
                               json |-> [t |-> args[i].data.t, items |-> args[i].data.items,
                                         ids |-> <<>>],
                               query |-> {}]

\* a bulk update given a row_id as well sent its PATCH to the bulk endpoint
C15_Witness ==
    \E i \in Started :
        /\ op[i] = "update_records" /\ OwnSent(i)
        /\ args[i].bulk /\ args[i].bulk_ids = <<"1", "2">> /\ args[i].row_id = "r1"
        /\ OwnRequest(i).path = <<"/api/v2/tables/", table_id[i], "/records/bulk">>
        /\ OwnRequest(i).json.ids = <<"1", "2">>

-----------------------------------------------------------------------------
(* Two invocations in one event loop.  Each await (the client call of       *)
(* get_table_id, the client call of the tool, aclose) is a point where the  *)
(* other coroutine may run, so the steps of the two invocations interleave  *)
(* freely.  The inputs are a part of those of Spec.                         *)

PairConfigs == {[url |-> "http://nocodb", token |-> "tok", base |-> b] : b \in {NONE, "b1"}}

PairCalls ==
    {<<"retrieve_records", [DefaultArgs EXCEPT !.table_name = t]>> : t \in {<<"A", "a">>, <<"a", "A">>}}
    \cup {<<"create_records", [DefaultArgs EXCEPT !.table_name = <<"A", "a">>, !.data = Dict("m1")]>>,
          <<"update_records", [DefaultArgs EXCEPT !.table_name = <<"A", "a">>, !.row_id = "r1",
                                                  !.data = Dict("m1")]>>,
          <<"update_records", [DefaultArgs EXCEPT !.table_name = <<"A", "a">>, !.row_id = "r1",
                                                  !.data = Dict("m1"), !.bulk = TRUE,
                                                  !.bulk_ids = <<"1", "2">>]>>,
          <<"delete_records", [DefaultArgs EXCEPT !.table_name = <<"A", "a">>, !.row_id = "r1"]>>,
          <<"get_schema", [DefaultArgs EXCEPT !.table_name = <<"A", "a">>]>>,
          <<"get_schema", DefaultArgs>>,
          <<"update_field", [DefaultArgs EXCEPT !.field_id = "f1", !.field_data = Dict("m1")]>>,
          <<"list_tables", DefaultArgs>>}

PairListingResponses ==
    {Resp(FALSE, 200, Body("object", 1, <<[title |-> <<"A", "a">>, id |-> "t1"]>>)),
     Resp(FALSE, 200, Body("object", 1, <<[title |-> <<"a", "A">>, id |-> "t2"]>>)),
     Resp(FALSE, 200, Body("object", 1, <<>>)),
     Resp(FALSE, 200, Body("nonjson", 1, <<>>)),
     Resp(FALSE, 500, Body("object", 1, <<>>)),
     NetFailure}

PairResponses ==
    {Resp(FALSE, 200, Body("object", 1, <<>>)),
     Resp(FALSE, 200, Body("number", 3, <<>>)),
     Resp(FALSE, 204, Body("empty", 0, <<>>)),
     Resp(FALSE, 500, Body("object", 1, <<>>)),
     NetFailure}

InitPair == Init /\ config \in PairConfigs

NextPair ==
    \E i \in InvIds :
        \/ InvokeAmong(i, PairCalls)
        \/ Acquire(i)
        \/ ResolveSend(i)
        \/ ResolveRecvAmong(i, PairListingResponses)
        \/ RequestSend(i)
        \/ RequestRecvAmong(i, PairResponses)
        \/ Finally(i)

SpecPair == InitPair /\ [][NextPair]_vars

-----------------------------------------------------------------------------
(* C16 *)

\* invocation i is between acquiring its client and leaving its try block
InFlight(i) == pc[i] \in {"resolve", "resolve_wait", "request", "request_wait"}

\* no two invocations hold the same client object, and the client of an
\* invocation that is still using it has not been closed
OwnClient ==
    \A i \in InvIds :
        /\ InFlight(i) => (handle[i] \in ClientIds /\ handle[i] \notin closed)
        /\ \A j \in InvIds \ {i} : handle[i] # NONE => handle[j] # handle[i]

\* a step in which invocation i does not move leaves everything of i as it
\* was, its client object included; the configuration is never written
NoInterference ==
    /\ config' = config
    /\ \A i \in InvIds :
           pc'[i] = pc[i] =>
               /\ <<op[i], args[i], tname[i], data[i], client[i], handle[i], table_id[i],
                    response[i], sent[i], result[i]>>' =
                  <<op[i], args[i], tname[i], data[i], client[i], handle[i], table_id[i],
                    response[i], sent[i], result[i]>>
               /\ (handle[i] \in closed') = (handle[i] \in closed)

\* two finished invocations of the same call that got the same last answer
\* after the same number of requests produced the same result
SameInputsSameResult ==
    \A i, j \in Started :
        (/\ Done(i) /\ Done(j)
         /\ op[i] = op[j] /\ args[i] = args[j]
         /\ Len(sent[i]) = Len(sent[j]) /\ response[i] = response[j]) =>
            result[i] = result[j]

\* C16: concurrent invocations do not interfere: each one sends on the client
\* it acquired itself, closing one invocation's client never closes the
\* client another is using, no step of one invocation writes anything another
\* reads, and the result depends only on the invocation's own parameters, the
\* configuration and the answers to its own requests.
C16_InvocationsIndependent ==
    /\ [](OwnClient /\ SameInputsSameResult)
    /\ [][NoInterference]_vars

\* one invocation has closed its client while the other, which acquired its
\* own while the first was still open, is waiting for an answer on an open one
C16_Witness ==
    \E i \in Started : \E j \in Started \ {i} :
        /\ op[i] \in TableOps /\ Done(i) /\ handle[i] \in closed
        /\ pc[j] = "request_wait" /\ handle[j] \in ClientIds \ closed
        /\ handle[j] # handle[i]

-----------------------------------------------------------------------------
(* C17 *)

\* r is a request that was answered by a failure: no answer at all, or a
\* non-2xx status
Failed(r) == r # NoResponse /\ (r.net \/ ~IsSuccess(r))

\* the listing answer r has a table titled name
Listed(r, name) ==
    ObjectAnswer(r) /\ \E k \in 1..Len(r.body.list) : r.body.list[k].title = name

\* the requests of invocation i so far are in the order of its tool
RequestOrder(i) ==
    LET n == Len(sent[i])
    IN  IF op[i] \in TableOps
        THEN /\ n <= 2
             /\ n >= 1 => sent[i][1] = ListingRequest(config.base)
             /\ n = 2 => /\ sent[i][2] # ListingRequest(config.base)
                         /\ sent[i][2] = BuildRequest(op[i], args[i], data[i], table_id[i],
                                                      config.base).req
                         /\ table_id[i] \in TableIds
             /\ (n = 2 /\ pc[i] = "request_wait") => Listed(response[i], tname[i])
             /\ pc[i] \in {"request", "request_wait"} => n >= 1
             /\ table_id[i] # NONE => n >= 1
        ELSE IF op[i] = "update_field"
        THEN /\ n <= 1
             /\ n = 1 => /\ sent[i][1].method = "PATCH"
                         /\ sent[i][1] # ListingRequest(config.base)
        ELSE /\ n <= 1
             /\ n = 1 => sent[i][1].method = "GET"

\* a step appends at most one request to the log of an invocation, and none
\* once a request of that invocation has failed
NoRetry ==
    \A i \in InvIds :
        /\ \/ sent'[i] = sent[i]
           \/ /\ Len(sent'[i]) = Len(sent[i]) + 1
              /\ SubSeq(sent'[i], 1, Len(sent[i])) = sent[i]
        /\ Failed(response[i]) => sent'[i] = sent[i]

\* C17: the requests of an invocation follow a fixed order, without retry or
\* memoization: a table tool sends the listing GET first, once, and its own
\* request once, only after the listing was answered 2xx with a matching
\* table; update_field sends no listing and at most one PATCH; list_tables
\* sends at most one GET; nothing is sent after a failed request; every
\* invocation that resolved a table, whatever another invocation resolved
\* before, sent its own listing GET.
C17_FixedRequestOrder ==
    /\ [](\A i \in Started : RequestOrder(i))
    /\ [][NoRetry]_vars

\* two invocations on the same table name: one finished with both its
\* requests, the other has sent its own listing GET and its own request
C17_Witness ==
    \E i \in Started : \E j \in Started \ {i} :
        /\ op[i] \in TableOps /\ op[j] \in TableOps /\ tname[i] = tname[j]
        /\ Done(i) /\ Len(sent[i]) = 2 /\ sent[i][1] = ListingRequest(config.base)
        /\ pc[j] = "request_wait" /\ Len(sent[j]) = 2
        /\ sent[j][1] = ListingRequest(config.base)

====
